---- MODULE Spec2Model ----
(***************************************************************************)
(* react-hook-form-discriminated: the discriminant matcher                 *)
(* (useFormTypeguard), the accessor factory (createDiscriminatedFormCtx)   *)
(* and the dispatcher (createDiscriminatedSubmitHandler), over one shared  *)
(* form container.                                                         *)
(*                                                                         *)
(* JavaScript values are tagged records [t |-> type, v |-> payload].  A    *)
(* property name is the sequence of its "."-separated segments: "kind" is  *)
(* <<"kind">> and the single name "meta.kind" is <<"meta", "kind">>, so    *)
(* joining names with the delimiter is concatenation and parsing a path is *)
(* cutting it into one-segment names.                                      *)
(***************************************************************************)
EXTENDS Integers, Sequences, FiniteSets, TLC

\* ------------------------------------------------------------- bounds
\* The most subscriptions one matcher may establish in a run.
MaxSubscribes == 2
\* The most change notifications one matcher may receive in a run.
MaxOnChange == 2

\* ------------------------------------------------------ JavaScript values
Undef == [t |-> "undefined", v |-> <<>>]
Str(s) == [t |-> "string", v |-> <<s>>]
\* A number, held by its decimal text.
Num(s) == [t |-> "number", v |-> <<s>>]
\* An object literal: its properties <<name, value>> in insertion order.
Obj(entries) == [t |-> "object", v |-> entries]
Arr(elems) == [t |-> "array", v |-> elems]

\* A one-segment property name.
K(s) == <<s>>

\* The names of an array's indices, as Object.keys gives them.
IndexNames == <<"0", "1", "2">>

IsNullish(value) == value.t \in {"undefined", "null"}
isPlainObject(value) == value.t = "object"
IsArray(value) == value.t = "array"

\* Object.keys(object): own enumerable property names, in order.
ObjectKeys(object) ==
    IF isPlainObject(object) THEN [i \in 1..Len(object.v) |-> object.v[i][1]]
    ELSE IF IsArray(object) THEN [i \in 1..Len(object.v) |-> K(IndexNames[i])]
    ELSE <<>>

\* object[key]: the own property, undefined when there is none.
GetOwn(object, key) ==
    IF isPlainObject(object)
    THEN IF \E i \in 1..Len(object.v) : object.v[i][1] = key
         THEN object.v[CHOOSE i \in 1..Len(object.v) : object.v[i][1] = key][2]
         ELSE Undef
    ELSE IF IsArray(object)
    THEN IF \E i \in 1..Len(object.v) : K(IndexNames[i]) = key
         THEN object.v[CHOOSE i \in 1..Len(object.v) : K(IndexNames[i]) = key]
         ELSE Undef
    ELSE Undef

\* result[key] = value on a property list: in place when the name exists,
\* appended otherwise.
SetProp(entries, key, value) ==
    IF \E i \in 1..Len(entries) : entries[i][1] = key
    THEN [i \in 1..Len(entries) |->
            IF entries[i][1] = key THEN <<key, value>> ELSE entries[i]]
    ELSE Append(entries, <<key, value>>)

\* delete result[key] on a property list.
DeleteProp(entries, key) == SelectSeq(entries, LAMBDA e : e[1] # key)

RECURSIVE ObjectAssign(_, _)
\* Object.assign(result, source) on property lists.
ObjectAssign(entries, source) ==
    IF source = <<>> THEN entries
    ELSE ObjectAssign(SetProp(entries, source[1][1], source[1][2]), Tail(source))

\* a === b: primitives by type and value; two objects or arrays are the same
\* only when they are one object, and a pattern's leaf and the form's value
\* never are.
StrictEq(a, b) == a.t = b.t /\ a.t \notin {"object", "array"} /\ a.v = b.v

\* String(value) for the primitives of the model.
String(value) ==
    CASE value.t = "undefined" -> "undefined"
      [] value.t = "null" -> "null"
      [] value.t \in {"string", "number"} -> value.v[1]
      [] value.t = "array" -> "[array]"
      [] OTHER -> "[object Object]"

RECURSIVE KeyText(_)
\* The text of a property name: its segments joined by ".".
KeyText(key) ==
    IF Len(key) = 1 THEN key[1] ELSE key[1] \o "." \o KeyText(Tail(key))

\* ------------------------------------------------------- library calls
RECURSIVE flattenObjectImpl(_, _, _, _)
\* es-toolkit flattenObject's loop, from the i-th own key of `object` on:
\* a non-empty plain object and every array are descended into, anything
\* else is stored under its prefixed name.  The empty prefix is <<>>.
flattenObjectImpl(object, prefix, i, result) ==
    IF i > Len(ObjectKeys(object)) THEN result
    ELSE LET key == ObjectKeys(object)[i]
             value == GetOwn(object, key)
             prefixedKey == IF prefix # <<>> THEN prefix \o key ELSE key
         IN  IF (isPlainObject(value) /\ Len(ObjectKeys(value)) > 0) \/ IsArray(value)
             THEN flattenObjectImpl(object, prefix, i + 1,
                      ObjectAssign(result, flattenObjectImpl(value, prefixedKey, 1, <<>>)))
             ELSE flattenObjectImpl(object, prefix, i + 1,
                      SetProp(result, prefixedKey, value))

\* flattenObject(object): the one-level object of delimiter-joined names.
flattenObject(object) == Obj(flattenObjectImpl(object, <<>>, 1, <<>>))

\* toPath(path): the path cut at its dots into one-segment names.
toPath(path) == [i \in 1..Len(path) |-> K(path[i])]

RECURSIVE getWithPath(_, _, _)
\* es-toolkit/compat get along a parsed path: undefined as soon as the walk
\* meets undefined or null.
getWithPath(current, path, index) ==
    IF index > Len(path) THEN current
    ELSE IF IsNullish(current) THEN Undef
    ELSE getWithPath(GetOwn(current, path[index]), path, index + 1)

\* es-toolkit/compat get(object, path): the property named by the whole
\* string when there is one, otherwise, for a dotted string, the walk along
\* its parsed path.
get(object, path) ==
    IF IsNullish(object) THEN Undef
    ELSE LET result == GetOwn(object, path)
         IN  IF result = Undef
             THEN IF Len(path) > 1 THEN getWithPath(object, toPath(path), 1) ELSE Undef
             ELSE result

RECURSIVE JSONStringify(_)
RECURSIVE JSONProps(_, _)
RECURSIVE JSONElems(_, _)
\* The members of an object's JSON text: a property whose value is
\* undefined is left out.
JSONProps(entries, first) ==
    IF entries = <<>> THEN ""
    ELSE IF entries[1][2] = Undef THEN JSONProps(Tail(entries), first)
    ELSE (IF first THEN "" ELSE ",")
         \o "\"" \o KeyText(entries[1][1]) \o "\":" \o JSONStringify(entries[1][2])
         \o JSONProps(Tail(entries), FALSE)

\* The elements of an array's JSON text: undefined is written null.
JSONElems(elems, first) ==
    IF elems = <<>> THEN ""
    ELSE (IF first THEN "" ELSE ",")
         \o (IF elems[1] = Undef THEN "null" ELSE JSONStringify(elems[1]))
         \o JSONElems(Tail(elems), FALSE)

\* JSON.stringify(value).
JSONStringify(value) ==
    CASE value.t = "string" -> "\"" \o value.v[1] \o "\""
      [] value.t = "number" -> value.v[1]
      [] value.t = "null" -> "null"
      [] value.t = "undefined" -> "undefined"
      [] value.t = "object" -> "{" \o JSONProps(value.v, TRUE) \o "}"
      [] value.t = "array" -> "[" \o JSONElems(value.v, TRUE) \o "]"

RECURSIVE DeleteKeys(_, _)
DeleteKeys(entries, keys) ==
    IF keys = <<>> THEN entries
    ELSE DeleteKeys(DeleteProp(entries, keys[1]), Tail(keys))

\* omit replaced by `delete values[key]` on the argument itself.
omitInPlace(obj, keys) ==
    [result |-> Obj(DeleteKeys(obj.v, keys)), obj |-> Obj(DeleteKeys(obj.v, keys))]

\* es-toolkit omit(obj, keys): a shallow copy { ...obj } with the keys
\* deleted from the copy.  `result` is what it returns, `obj` is the
\* argument object as the call leaves it.
omit(obj, keys) == [result |-> Obj(DeleteKeys(obj.v, keys)), obj |-> obj]

\* ------------------------------------------------------------ the state
VARIABLES
    formValues,       \* the shared container's record (control._formValues)
    formContext,      \* the handle the enclosing provider supplies
    rendered,         \* the matcher's component has rendered at least once
    discriminant,     \* the pattern the latest render passed
    memoDeps,         \* useMemo's remembered dependency: the pattern's JSON text
    discriminantKeys, \* useMemo's remembered value: the flattened names
    subscribedNames,  \* the names useWatch is subscribed to
    subscribeCount,   \* calls of the container's subscribe
    onChangeCount,    \* calls of the subscription's callback (compute)
    isMatching,       \* the boolean the matcher returns
    ctxResult,        \* what the accessor returned, per requested variant key
    handlers,         \* the dispatcher's handler table
    snapshot,         \* the values the latest dispatch was given
    snapshotAfter,    \* that same object once the dispatch has ended
    calls,            \* the handlers the latest dispatch invoked, with arguments
    handlerReturn,    \* what the invoked handler returned
    result,           \* what the latest dispatch returned
    thrown,           \* the error the latest dispatch raised, or NoError
    lastOp            \* the operation that produced this state

matcherVars ==
    <<rendered, discriminant, memoDeps, discriminantKeys, subscribedNames,
      subscribeCount, onChangeCount, isMatching>>
dispatchVars == <<snapshot, snapshotAfter, calls, handlerReturn, result, thrown>>
vars == <<formValues, formContext, matcherVars, ctxResult, handlers, dispatchVars, lastOp>>

\* ----------------------------------------------------------- the inputs
\* Patterns a call site may pass to the matcher.
PatKindA == Obj(<< <<K("kind"), Str("a")>> >>)
PatKindB == Obj(<< <<K("kind"), Str("b")>> >>)
PatKindAValue == Obj(<< <<K("kind"), Str("a")>>, <<K("value"), Num("5")>> >>)
\* The same pattern with its keys written in the other order.
PatValueKindA == Obj(<< <<K("value"), Num("5")>>, <<K("kind"), Str("a")>> >>)
PatKindAValueUndef == Obj(<< <<K("kind"), Str("a")>>, <<K("value"), Undef>> >>)
PatNested == Obj(<< <<K("meta"), Obj(<< <<K("kind"), Str("a")>> >>)>> >>)
\* A dotted name as one key, as in { 'subscription.isActive': true }.
PatDotted == Obj(<< <<<<"meta", "kind">>, Str("a")>> >>)
PatTags ==
    Obj(<< <<K("meta"), Obj(<< <<K("tags"), Arr(<<Str("x")>>)>> >>)>> >>)
\* A dotted name holding an array, as in
\* { 'profile.features': ['advanced', 'priority'] }.
PatDottedTags == Obj(<< <<<<"meta", "tags">>, Arr(<<Str("x")>>)>> >>)

Patterns ==
    {PatKindA, PatKindB, PatKindAValue, PatValueKindA, PatKindAValueUndef,
     PatNested, PatDotted, PatTags, PatDottedTags}

\* The form's default values.
DefaultValues ==
    {Obj(<< <<K("kind"), Str("a")>>, <<K("value"), Num("5")>> >>),
     Obj(<< <<K("kind"), Str("b")>> >>),
     Obj(<< <<K("value"), Num("5")>> >>)}

\* The values setValue may write, per field.
FieldUpdates ==
    {<<K("kind"), Str("a")>>, <<K("kind"), Str("b")>>,
     <<K("kind"), Str("constructor")>>,
     <<K("value"), Num("5")>>,
     <<K("meta"), Obj(<< <<K("kind"), Str("a")>> >>)>>,
     <<K("meta"), Obj(<< <<K("tags"), Arr(<<Str("x")>>)>> >>)>>,
     <<K("meta"), Obj(<< <<K("tags"), Arr(<<Str("x"), Str("y")>>)>> >>)>>}

\* The handles a provider may hold.
Handles == {"methodsA", "methodsB"}
\* The variant keys an accessor may be requested with; "undefined" is the
\* call without a key.
VariantKeys == {"a", "b", "undefined"}
NoCall == "none"

\* Handler tables a caller may register.
HandlerTables == {[a |-> "h1", b |-> "h2"], [a |-> "h1"]}
\* What a caller's handler may return.
HandlerReturns == {Undef, Str("saved")}
NoError == [name |-> "none", message |-> <<>>]
DiscriminantKey == K("kind")

NoOp == [op |-> "init", name |-> <<>>, notified |-> FALSE]

\* ------------------------------------------------- the shared container
IsPrefix(a, b) == Len(a) <= Len(b) /\ SubSeq(b, 1, Len(a)) = a

\* The container's read of one field path: the walk along the parsed path.
getFieldValue(values, name) == getWithPath(values, toPath(name), 1)

\* The values the subscription hands its callback: one per subscribed name.
watchValues(values, name) ==
    [index \in 1..Len(name) |-> getFieldValue(values, name[index])]

\* Whether a write to `field` is a change to a subscribed path: the field
\* is the path, above it or below it.
Notifies(name, field) ==
    \E index \in 1..Len(name) :
        IsPrefix(field, name[index]) \/ IsPrefix(name[index], field)

\* ------------------------------------------------------------ the matcher
\* The memo's factory: the names of the flattened pattern.
discriminantKeysFactory(pattern) == ObjectKeys(flattenObject(pattern))

\* useMemo(factory, [JSON.stringify(discriminant)]): the remembered value
\* while the dependency text is unchanged, a new array otherwise.
useMemoKeys(mounted, prevDeps, prevKeys, pattern) ==
    LET deps == JSONStringify(pattern)
    IN  IF mounted /\ deps = prevDeps
        THEN [value |-> prevKeys, deps |-> deps, fresh |-> FALSE]
        ELSE [value |-> discriminantKeysFactory(pattern), deps |-> deps, fresh |-> TRUE]

\* useWatch's compute callback.
compute(keys, pattern, values) ==
    \A index \in 1..Len(keys) :
        StrictEq(values[index], get(pattern, keys[index]))

\* useWatch without the names of the pattern: a subscription to every field.
watchWholeRecord(keys) == <<K("kind"), K("value"), K("meta")>>

\* useWatch's name option: the paths to subscribe to.
watchName(keys) == keys

\* One evaluation of useFormTypeguard(form, pattern).  useWatch subscribes
\* anew, and computes from the current values, when its name is a new array.
Render(pattern) ==
    LET memo == useMemoKeys(rendered, memoDeps, discriminantKeys, pattern)
        name == watchName(memo.value)
    IN  /\ memo.fresh => subscribeCount < MaxSubscribes
        /\ rendered' = TRUE
        /\ discriminant' = pattern
        /\ memoDeps' = memo.deps
        /\ discriminantKeys' = memo.value
        /\ subscribedNames' = IF memo.fresh THEN name ELSE subscribedNames
        /\ subscribeCount' = IF memo.fresh THEN subscribeCount + 1 ELSE subscribeCount
        /\ isMatching' = IF memo.fresh
                         THEN compute(memo.value, pattern, watchValues(formValues, name))
                         ELSE isMatching
        /\ lastOp' = [op |-> "render", name |-> <<>>, notified |-> memo.fresh]
        /\ UNCHANGED <<formValues, formContext, onChangeCount, ctxResult, handlers,
                       dispatchVars>>

RECURSIVE DeepEqual(_, _)
\* Equality by value: the same keys with equal values, in any order, and
\* arrays equal element by element.
DeepEqual(a, b) ==
    /\ a.t = b.t
    /\ CASE a.t = "object" ->
              /\ Len(a.v) = Len(b.v)
              /\ \A i \in 1..Len(a.v) :
                    \E j \in 1..Len(b.v) :
                        a.v[i][1] = b.v[j][1] /\ DeepEqual(a.v[i][2], b.v[j][2])
         [] a.t = "array" ->
              /\ Len(a.v) = Len(b.v)
              /\ \A i \in 1..Len(a.v) : DeepEqual(a.v[i], b.v[i])
         [] OTHER -> a.v = b.v

RenderAny == \E pattern \in Patterns : Render(pattern)

\* An evaluation whose pattern is equal by value to the previous one.
RenderSame ==
    \E pattern \in Patterns :
        /\ rendered => DeepEqual(pattern, discriminant)
        /\ Render(pattern)

\* form.setValue(field, value): the container writes the field and runs one
\* notification pass, calling the callback of a subscription to that path.
SetValue ==
    \E update \in FieldUpdates :
        LET field == update[1]
            notified == Notifies(subscribedNames, field)
            written == Obj(SetProp(formValues.v, field, update[2]))
        IN  /\ notified => onChangeCount < MaxOnChange
            /\ formValues' = written
            /\ onChangeCount' = IF notified THEN onChangeCount + 1 ELSE onChangeCount
            /\ isMatching' = IF notified
                             THEN compute(discriminantKeys, discriminant,
                                          watchValues(written, subscribedNames))
                             ELSE isMatching
            /\ lastOp' = [op |-> "setValue", name |-> field, notified |-> notified]
            /\ UNCHANGED <<formContext, rendered, discriminant, memoDeps,
                           discriminantKeys, subscribedNames, subscribeCount,
                           ctxResult, handlers, dispatchVars>>

\* ----------------------------------------------------------- the accessor
\* useFormContext(): the handle of the enclosing provider.
useFormContext == formContext

\* An accessor that checks its variant key against the live discriminant.
useFormCtxChecked(T) ==
    IF T = "undefined" \/ Str(T) = GetOwn(formValues, K("kind"))
    THEN useFormContext
    ELSE "throws"

\* The hook createDiscriminatedFormCtx returns: its variant key is a type
\* argument only.
useFormCtx(T) == useFormContext

UseFormCtx ==
    \E T \in VariantKeys :
        /\ ctxResult[T] = NoCall
        /\ ctxResult' = [ctxResult EXCEPT ![T] = useFormCtx(T)]
        /\ lastOp' = [op |-> "useFormCtx", name |-> K(T), notified |-> FALSE]
        /\ UNCHANGED <<formValues, formContext, matcherVars, handlers, dispatchVars>>

\* --------------------------------------------------------- the dispatcher
\* What a handler table inherits from Object.prototype.
ObjectPrototype == [constructor |-> "Object"]

\* handlers[discriminantKey]: the table indexed by the name of the field.
lookupHandlerByFieldName(table, discriminantValue) ==
    IF "kind" \in DOMAIN table THEN table["kind"] ELSE "undefined"

\* handlers[discriminantValue]: the own entry, else the inherited property,
\* else undefined.
lookupHandler(table, discriminantValue) ==
    LET key == String(discriminantValue)
    IN  IF key \in DOMAIN table THEN table[key]
        ELSE IF key \in DOMAIN ObjectPrototype THEN ObjectPrototype[key]
        ELSE "undefined"

\* handler(argument): the inherited Object constructor returns its argument,
\* a caller's handler returns what the caller wrote it to return.
invoke(handler, argument, ret) == IF handler = "Object" THEN argument ELSE ret

\* The function createDiscriminatedSubmitHandler returns, applied to
\* `values`; `ret` is what a caller's handler returns when invoked.
submitHandler(table, discriminantKey, values, ret) ==
    LET discriminantValue == GetOwn(values, discriminantKey)
        handler == lookupHandler(table, discriminantValue)
        omitted == omit(values, <<discriminantKey>>)
        returned == invoke(handler, omitted.result, ret)
    IN  IF handler = "undefined"
        THEN [thrown |-> [name |-> "Error",
                          message |-> <<"No handler found for discriminant value: ",
                                        String(discriminantValue)>>],
              calls |-> <<>>, result |-> Undef, values |-> values]
        ELSE [thrown |-> NoError,
              calls |-> << <<handler, omitted.result>> >>,
              result |-> returned, values |-> omitted.obj]

\* handleSubmit hands the dispatcher the container's current values.
Submit ==
    \E ret \in HandlerReturns :
        LET out == submitHandler(handlers, DiscriminantKey, formValues, ret)
        IN  /\ snapshot' = formValues
            /\ snapshotAfter' = out.values
            /\ calls' = out.calls
            /\ handlerReturn' = IF out.calls = <<>> THEN Undef
                                ELSE invoke(out.calls[1][1], out.calls[1][2], ret)
            /\ result' = out.result
            /\ thrown' = out.thrown
            /\ lastOp' = [op |-> "submit", name |-> <<>>, notified |-> FALSE]
            /\ UNCHANGED <<formValues, formContext, matcherVars, ctxResult, handlers>>

\* -------------------------------------------------------- specifications
\* useForm({ defaultValues }) inside one provider.
InitForm ==
    /\ formValues \in DefaultValues
    /\ lastOp = NoOp

InitMatcher ==
    /\ rendered = FALSE
    /\ discriminant = Undef
    /\ memoDeps = ""
    /\ discriminantKeys = <<>>
    /\ subscribedNames = <<>>
    /\ subscribeCount = 0
    /\ onChangeCount = 0
    /\ isMatching = FALSE

InitAccessor == ctxResult = [T \in VariantKeys |-> NoCall]

InitDispatcher ==
    /\ snapshot = Undef
    /\ snapshotAfter = Undef
    /\ calls = <<>>
    /\ handlerReturn = Undef
    /\ result = Undef
    /\ thrown = NoError

\* The three components share the container and nothing else, and none calls
\* another: each is checked over the live container on its own.

\* The matcher under any sequence of patterns and changes.
Init ==
    /\ InitForm /\ InitMatcher /\ InitAccessor /\ InitDispatcher
    /\ formContext = "methodsA"
    /\ handlers = [a |-> "h1", b |-> "h2"]
Next == RenderAny \/ SetValue
Spec == Init /\ [][Next]_vars

\* The matcher under one pattern, equal by value at every evaluation.
NextFixedPattern == RenderSame \/ SetValue
SpecFixedPattern == Init /\ [][NextFixedPattern]_vars

\* The accessor, under any provider.
InitAnyProvider ==
    /\ InitForm /\ InitMatcher /\ InitAccessor /\ InitDispatcher
    /\ formContext \in Handles
    /\ handlers = [a |-> "h1", b |-> "h2"]
NextAccessor == UseFormCtx \/ SetValue
SpecAccessor == InitAnyProvider /\ [][NextAccessor]_vars

\* The dispatcher, under any handler table.
InitAnyTable ==
    /\ InitForm /\ InitMatcher /\ InitAccessor /\ InitDispatcher
    /\ formContext = "methodsA"
    /\ handlers \in HandlerTables
NextDispatcher == Submit \/ SetValue
SpecDispatcher == InitAnyTable /\ [][NextDispatcher]_vars
\* ---------------------------------------------------------------- claims
SeqSet(seq) == {seq[i] : i \in 1..Len(seq)}

\* The discriminant value of the latest dispatch's snapshot, as a table key.
SnapshotKey == String(GetOwn(snapshot, DiscriminantKey))

\* `argument` is `values` without the field `key`: no such field, every
\* other field with its value, and nothing else.
IsCopyWithout(argument, values, key) ==
    /\ isPlainObject(argument)
    /\ \A j \in 1..Len(argument.v) : argument.v[j][1] # key
    /\ \A i \in 1..Len(values.v) :
          values.v[i][1] # key => \E j \in 1..Len(argument.v) : argument.v[j] = values.v[i]
    /\ \A j \in 1..Len(argument.v) :
          \E i \in 1..Len(values.v) : values.v[i] = argument.v[j]

\* C1: a dispatch of a snapshot whose discriminant value has an entry in the
\* handler table invokes that entry's handler once and no other, with the
\* snapshot minus the discriminant field and every other field unchanged,
\* raises nothing and returns what the handler returned.
C1_DispatchRoutesToEntry ==
    (lastOp.op = "submit" /\ SnapshotKey \in DOMAIN handlers) =>
        /\ thrown = NoError
        /\ Len(calls) = 1
        /\ calls[1][1] = handlers[SnapshotKey]
        /\ IsCopyWithout(calls[1][2], snapshot, DiscriminantKey)
        /\ result = handlerReturn

\* Handlers { a: h1, b: h2 } and snapshot { kind: "b", value: 5 }: h2 was
\* invoked with { value: 5 } and its result came back.
C1_Witness ==
    /\ lastOp.op = "submit"
    /\ handlers = [a |-> "h1", b |-> "h2"]
    /\ snapshot = Obj(<< <<K("kind"), Str("b")>>, <<K("value"), Num("5")>> >>)
    /\ calls = << <<"h2", Obj(<< <<K("value"), Num("5")>> >>)>> >>
    /\ result = Str("saved")

\* C2: a dispatch of a snapshot whose discriminant value has no entry in the
\* handler table raises the missing-handler error, whose message holds the
\* unmatched value, and invokes no handler; with an entry the dispatch
\* raises nothing.
C2_MissingEntryRaises ==
    lastOp.op = "submit" =>
        IF SnapshotKey \in DOMAIN handlers
        THEN thrown = NoError
        ELSE /\ thrown # NoError
             /\ SnapshotKey \in SeqSet(thrown.message)
             /\ calls = <<>>

\* C8: a dispatch, returning or raising, leaves the snapshot it was given as
\* it was (the discriminant field still in it, the handler's argument another
\* record), and leaves the handler table and the container unchanged.
C8_DispatchMutatesNothing ==
    [][lastOp'.op = "submit" =>
          /\ snapshot' = formValues
          /\ snapshotAfter' = snapshot'
          /\ calls' # <<>> =>
                /\ GetOwn(snapshotAfter', DiscriminantKey) # Undef
                /\ GetOwn(calls'[1][2], DiscriminantKey) = Undef
          /\ formValues' = formValues
          /\ handlers' = handlers]_vars

\* A dispatch that invoked a handler with the stripped record, the snapshot
\* still holding its discriminant.
C8_Witness ==
    /\ lastOp.op = "submit"
    /\ calls # <<>>
    /\ GetOwn(calls[1][2], DiscriminantKey) = Undef
    /\ GetOwn(snapshotAfter, DiscriminantKey) = Str("a")
    /\ formValues = snapshot

\* C7: every accessor, whatever variant key it is requested with and
\* whatever the container holds, returns the one handle of the provider:
\* any two returned handles are the same and none is an error.
C7_AccessorsShareOneHandle ==
    \A T1 \in VariantKeys, T2 \in VariantKeys :
        (ctxResult[T1] # NoCall /\ ctxResult[T2] # NoCall) =>
            /\ ctxResult[T1] = formContext
            /\ ctxResult[T1] = ctxResult[T2]

\* The accessors for "a" and for "b" were both requested, and the record
\* holds neither variant.
C7_Witness ==
    /\ ctxResult["a"] # NoCall
    /\ ctxResult["b"] # NoCall
    /\ ctxResult["a"] = ctxResult["b"]
    /\ GetOwn(formValues, K("kind")) = Str("constructor")

\* The pattern's flattened pairs <<path, expected value>>.
FlattenedPairs(pattern) == flattenObject(pattern).v

\* Every flattened pair of the pattern holds in the record: the value at the
\* path equals the expected value.
PatternHolds(pattern, values) ==
    \A i \in 1..Len(FlattenedPairs(pattern)) :
        DeepEqual(getFieldValue(values, FlattenedPairs(pattern)[i][1]),
                  FlattenedPairs(pattern)[i][2])

\* The field is a path the pattern names, or lies above or below one.
NamedIn(field, pattern) ==
    \E i \in 1..Len(FlattenedPairs(pattern)) :
        \/ IsPrefix(field, FlattenedPairs(pattern)[i][1])
        \/ IsPrefix(FlattenedPairs(pattern)[i][1], field)

\* C3: under one pattern, at the end of every notification pass `matches` is
\* the conjunction, over the pattern's flattened pairs, of "the record's
\* value at the path equals the expected value", and the pass establishes no
\* new subscription.
C3_MatchesIsConjunctionOfPairs ==
    [][(lastOp'.op = "setValue" /\ lastOp'.notified) =>
          /\ isMatching' = PatternHolds(discriminant', formValues')
          /\ subscribeCount' = subscribeCount]_vars

C5_EqualPatternKeepsSubscription ==
    [][(rendered /\ lastOp'.op = "render" /\ DeepEqual(discriminant', discriminant)) =>
          subscribeCount' = subscribeCount]_vars

\* C6: after any sequence of patterns the matcher is subscribed to the
\* flattened paths of the pattern it was last given.
C6_SubscriptionFollowsPattern ==
    rendered =>
        SeqSet(subscribedNames) = SeqSet(ObjectKeys(flattenObject(discriminant)))

RECURSIVE LeafPairs(_, _, _, _)
\* The pairs <<path, leaf>> of a pattern when only a plain key-value mapping
\* is descended into: an array is a leaf.
LeafPairs(object, prefix, i, pairs) ==
    IF i > Len(ObjectKeys(object)) THEN pairs
    ELSE LET key == ObjectKeys(object)[i]
             value == GetOwn(object, key)
             path == prefix \o key
         IN  IF isPlainObject(value) /\ Len(ObjectKeys(value)) > 0
             THEN LeafPairs(object, prefix, i + 1,
                      pairs \o LeafPairs(value, path, 1, <<>>))
             ELSE LeafPairs(object, prefix, i + 1, Append(pairs, <<path, value>>))

\* C9: an array in the pattern is one leaf: its own path is among the
\* flattened paths exactly once, and the matcher matches only while the
\* record's value at that path equals the whole array.
C9_ArrayIsOneLeaf ==
    rendered =>
        \A i \in 1..Len(LeafPairs(discriminant, <<>>, 1, <<>>)) :
            LET pair == LeafPairs(discriminant, <<>>, 1, <<>>)[i]
            IN  IsArray(pair[2]) =>
                  /\ Cardinality({j \in 1..Len(discriminantKeys) :
                                     discriminantKeys[j] = pair[1]}) = 1
                  /\ isMatching => DeepEqual(getFieldValue(formValues, pair[1]), pair[2])

\* C10: the matcher yields a boolean, and `matches` is false whenever some
\* path of the pattern is absent from the record or holds another value than
\* the expected one.
C10_AbsentOrDifferentIsFalse ==
    rendered =>
        /\ isMatching \in BOOLEAN
        /\ (\E i \in 1..Len(FlattenedPairs(discriminant)) :
               LET pair == FlattenedPairs(discriminant)[i]
               IN  \/ getFieldValue(formValues, pair[1]) = Undef
                   \/ ~DeepEqual(getFieldValue(formValues, pair[1]), pair[2]))
             => ~isMatching
====
